---- MODULE Spec2Model ----
(***************************************************************************)
(* Binary_Data_Analyzer.cpp as a state machine.                            *)
(*                                                                         *)
(* The run of main() is modelled statement by statement: the data file is  *)
(* written, read back by BinaryReader, and the four analyzers are built    *)
(* and asked for their report in the order of main().  selection_sort and  *)
(* binary_search_recursive advance one loop iteration / one call per step. *)
(* Arrays live in a heap indexed by address, so that who owns which array  *)
(* is part of the state.  C arrays are 0-based; the heap holds them as     *)
(* sequences, element k of the array being seq[k + 1].                     *)
(***************************************************************************)
EXTENDS Integers, Sequences, FiniteSets, TLC

VARIABLES
    pc,          \* position of main()
    file,        \* words of binary.dat: <<length, v1, v2, ...>>, maybe cut short
    failbit,     \* state of BinaryReader's ifstream after readValues
    heap,        \* address -> array
    brk,         \* number of arrays allocated so far with new[]
    br,          \* the BinaryReader: [values, size]
    an,          \* the analyzers sa, da, ma, ra: name -> [values, size]
    self,        \* the analyzer whose constructor or analyze() is running
    i, j, minIndex,             \* locals of selection_sort
    draw, foundCount,           \* locals of SearchAnalyzer::analyze
    key, start, end, result,    \* binary_search_recursive: arguments, return value
    report,      \* name -> what analyze() returned
    nread,       \* history: elements readValues obtained from the file
    src0,        \* history: the reader's array as the first analyzer received it
    memberDraws  \* history: draws so far whose key occurs in ra's array

vars == <<pc, file, failbit, heap, brk, br, an, self, i, j, minIndex, draw,
          foundCount, key, start, end, result, report, nread, src0, memberDraws>>

(* ------------------------------ bounds --------------------------------- *)

\* Longest array written to the file (main() writes SIZE = 1000).
MaxLen == 4

\* Cap on the number of lookups of SearchAnalyzer::analyze (the code does 100).
MaxDraws == 2

\* Values an array element may hold: two inside 0..999, one on either side.
Vals == {-1, 0, 1, 1000}

\* Values an uninitialised int of new int[size] may hold: any at all, here one
\* on either side of 0..999.  (Every array over Vals is also read from an
\* intact file, so what the analyzers are given does not depend on this set.)
Garbage == {-1, 1000}

\* The outcomes of rand() % 1000 that are tried, all within 0..999.
Keys == {0, 1, 999}

(* -------------------------- program constants -------------------------- *)

\* The literal 1000 of MissingAnalyzer::analyze's loop.
MissingDomain == 1000

\* The literal 100 of SearchAnalyzer::analyze's loop.
Lookups == 100

NullPtr == 0

Names == {"sa", "da", "ma", "ra"}

(* ------------------------------ helpers -------------------------------- *)

Range(s) == {s[k] : k \in 1..Len(s)}

\* How often v occurs in s.
Count(s, v) == Cardinality({k \in 1..Len(s) : s[k] = v})

\* All arrays of length n over Vals.
Arrays(n) == [1..n -> Vals]

\* values[idx] of the array at address p.
At(p, idx) == heap[p][idx + 1]

Sorted(s) == \A k \in 1..(Len(s) - 1) : s[k] <= s[k + 1]

SameBag(s, t) == /\ Len(s) = Len(t)
                 /\ \A v \in Range(s) \cup Range(t) : Count(s, v) = Count(t, v)

(* ------------------------------ Init ----------------------------------- *)

NoReport == [kind |-> "none"]

Init ==
    /\ pc = "create"
    /\ file = <<>>
    /\ failbit = FALSE
    /\ heap = [p \in 1..5 |-> <<>>]
    /\ brk = 0
    /\ br = [values |-> NullPtr, size |-> 0]
    /\ an = [n \in Names |-> [values |-> NullPtr, size |-> 0]]
    /\ self = "none"
    /\ i = 0 /\ j = 0 /\ minIndex = 0
    /\ draw = 0 /\ foundCount = 0
    /\ key = 0 /\ start = 0 /\ end = 0 /\ result = FALSE
    /\ report = [n \in Names |-> NoReport]
    /\ nread = 0
    /\ src0 = <<>>
    /\ memberDraws = 0

(* ------------------------- file output and input ----------------------- *)

\* writeBinary: the length word, then the elements.
FileImage(values, length) == <<length>> \o SubSeq(values, 1, length)

\* What is on disk afterwards.  The ofstream is never tested, so a failed
\* open or a write cut short (full disk) leaves any prefix of the image.
Persisted(image) == {SubSeq(image, 1, w) : w \in 0..Len(image)}

\* createBinaryFile(name, length): an array of `length` values, written by
\* writeBinary.
createBinaryFile ==
    /\ pc = "create"
    /\ \E length \in 0..MaxLen :
         \E array \in Arrays(length) :
           \E onDisk \in Persisted(FileImage(array, length)) :
             file' = onDisk
    /\ pc' = "read"
    /\ UNCHANGED <<failbit, heap, brk, br, an, self, i, j, minIndex, draw,
                   foundCount, key, start, end, result, report, nread, src0,
                   memberDraws>>

\* The size readValues ends up with: the first word of the file; a failed
\* read leaves the 0 the constructor stored.
ReadSize(f) == IF Len(f) >= 1 THEN f[1] ELSE 0

\* Elements the second read can take from the file.
ReadCount(f, size) == IF Len(f) - 1 < size THEN Len(f) - 1 ELSE size

\* BinaryReader::BinaryReader -> readValues.  new int[size] is uninitialised;
\* istream::read stores what the file still holds and sets failbit when that
\* is less than asked for.  No stream state is tested.
BinaryReader ==
    /\ pc = "read"
    /\ LET size == ReadSize(file)
           got  == IF Len(file) >= 1 THEN ReadCount(file, size) ELSE 0
       IN  /\ \E garbage \in [1..size -> Garbage] :
                heap' = [heap EXCEPT ![brk + 1] =
                           [k \in 1..size |-> IF k <= got THEN file[k + 1]
                                                         ELSE garbage[k]]]
           /\ br' = [values |-> brk + 1, size |-> size]
           /\ nread' = got
           /\ failbit' = (Len(file) < 1 \/ got < size)
    /\ brk' = brk + 1
    /\ src0' = heap'[brk + 1]
    /\ pc' = "saCtor"
    /\ UNCHANGED <<file, an, self, i, j, minIndex, draw, foundCount, key,
                   start, end, result, report, memberDraws>>

(* ---------------------------- Analyzer ---------------------------------- *)

\* A shallow copy: this->values = values.
CloneTargetShallow(callerPtr, fresh) == callerPtr

\* The address this->values gets in cloneValues: the fresh array of
\* new int[size], not the caller's pointer.
CloneTarget(callerPtr, fresh) == fresh

\* Analyzer::Analyzer -> cloneValues(br.getValues(), br.getSize()), as each
\* constructor call of main() passes them: the analyzer `name` gets the size
\* and a copy of the first `size` elements.
AnCloned(name) ==
    [an EXCEPT ![name] = [values |-> CloneTarget(br.values, brk + 1),
                          size   |-> br.size]]

HeapCloned ==
    [heap EXCEPT ![CloneTarget(br.values, brk + 1)] =
                     SubSeq(heap[br.values], 1, br.size)]

(* --------------------------- selection_sort ---------------------------- *)

\* for (int i = 0; i < size - 1; ++i)
OuterCond(ii, size) == ii < size - 1

\* for (int j = i + 1; j < size; ++j)
InnerCond(jj, size) == jj < size

\* The comparison turned around.
LessFlipped(a, b) == a > b

\* if (values[j] < values[minIndex])
Less(a, b) == a < b

\* std::swap(values[a], values[b]) on a sequence (0-based a, b).
Swap(s, a, b) == [s EXCEPT ![a + 1] = s[b + 1], ![b + 1] = s[a + 1]]

\* Where main() continues when the sort called by a constructor returns.
SortReturn(name) == IF name = "sa" THEN "saAnalyze" ELSE "raLoop"

\* The head of the outer loop: start a scan, or return.
SortOuter ==
    /\ pc = "sortOuter"
    /\ IF OuterCond(i, an[self].size)
         THEN /\ minIndex' = i
              /\ j' = i + 1
              /\ pc' = "sortInner"
              /\ i' = i
         ELSE /\ pc' = SortReturn(self)
              /\ i' = 0 /\ j' = 0 /\ minIndex' = 0
    /\ UNCHANGED <<file, failbit, heap, brk, br, an, self, draw, foundCount,
                   key, start, end, result, report, nread, src0, memberDraws>>

\* One iteration of the inner loop, or, past its end, the swap and ++i.
SortInner ==
    /\ pc = "sortInner"
    /\ LET p == an[self].values
       IN  IF InnerCond(j, an[self].size)
             THEN /\ minIndex' = IF Less(At(p, j), At(p, minIndex))
                                   THEN j ELSE minIndex
                  /\ j' = j + 1
                  /\ UNCHANGED <<heap, i, pc>>
             ELSE /\ heap' = [heap EXCEPT ![p] = Swap(heap[p], i, minIndex)]
                  /\ i' = i + 1
                  /\ pc' = "sortOuter"
                  /\ UNCHANGED <<j, minIndex>>
    /\ UNCHANGED <<file, failbit, brk, br, an, self, draw, foundCount, key,
                   start, end, result, report, nread, src0, memberDraws>>

(* ------------------------- StatisticsAnalyzer -------------------------- *)

\* StatisticsAnalyzer::StatisticsAnalyzer: clone, then selection_sort.
StatisticsAnalyzer ==
    /\ pc = "saCtor"
    /\ an' = AnCloned("sa")
    /\ heap' = HeapCloned
    /\ brk' = brk + 1
    /\ self' = "sa"
    /\ i' = 0
    /\ pc' = "sortOuter"
    /\ UNCHANGED <<file, failbit, br, j, minIndex, draw, foundCount, key,
                   start, end, result, report, nread, src0, memberDraws>>

\* if (size == 0) return "No data to analyze.";
SaEmpty(size) == size = 0

\* The unordered_map built by counting every element: value -> occurrences.
FrequencyMap(s) == [v \in Range(s) |-> Count(s, v)]

\* The orders in which a range-for may visit an unordered_map: the standard
\* fixes none, so every enumeration of the keys is possible.
IterOrders(map) ==
    {o \in [1..Cardinality(DOMAIN map) -> DOMAIN map] :
        \A a, b \in DOMAIN o : a # b => o[a] # o[b]}

\* sum += values[i] over the whole array.
RECURSIVE Sum(_, _)
Sum(s, k) == IF k = 0 THEN 0 ELSE Sum(s, k - 1) + s[k]

\* Twice the median: the two middle elements added when size is even, the
\* middle element doubled when it is odd (the code divides the first by 2.0).
Median2(s, size) ==
    IF size % 2 = 0 THEN s[(size \div 2 - 1) + 1] + s[(size \div 2) + 1]
                    ELSE 2 * s[(size \div 2) + 1]

\* The mode loop from entry k of the visiting order on.
RECURSIVE ModeScan(_, _, _, _, _)
ModeScan(map, order, k, mode, maxFrequency) ==
    IF k > Len(order)
      THEN [mode |-> mode, maxFrequency |-> maxFrequency]
      ELSE IF map[order[k]] > maxFrequency
             THEN ModeScan(map, order, k + 1, order[k], map[order[k]])
             ELSE ModeScan(map, order, k + 1, mode, maxFrequency)

\* The indices StatisticsAnalyzer::analyze reads once past the empty test.
StatIndices(size) ==
    {0, size - 1} \cup (0..(size - 1))
       \cup (IF size % 2 = 0 THEN {size \div 2 - 1, size \div 2}
                             ELSE {size \div 2})

\* StatisticsAnalyzer::analyze.
saAnalyze ==
    /\ pc = "saAnalyze"
    /\ LET s    == heap[an["sa"].values]
           size == an["sa"].size
       IN  IF SaEmpty(size)
             THEN report' = [report EXCEPT !["sa"] = [kind |-> "nodata"]]
             ELSE \E order \in IterOrders(FrequencyMap(s)) :
                    LET m == ModeScan(FrequencyMap(s), order, 1, s[1], 1)
                    IN  report' = [report EXCEPT !["sa"] =
                                     [kind |-> "stats",
                                      min |-> s[1],
                                      max |-> s[(size - 1) + 1],
                                      sum |-> Sum(s, size),
                                      median2 |-> Median2(s, size),
                                      mode |-> m.mode,
                                      maxFrequency |-> m.maxFrequency]]
    /\ pc' = "daCtor"
    /\ UNCHANGED <<file, failbit, heap, brk, br, an, self, i, j, minIndex,
                   draw, foundCount, key, start, end, result, nread, src0,
                   memberDraws>>

(* -------------------------- DuplicateAnalyzer -------------------------- *)

\* DuplicateAnalyzer::DuplicateAnalyzer: clone only.
DuplicateAnalyzer ==
    /\ pc = "daCtor"
    /\ an' = AnCloned("da")
    /\ heap' = HeapCloned
    /\ brk' = brk + 1
    /\ self' = "da"
    /\ pc' = "daAnalyze"
    /\ UNCHANGED <<file, failbit, br, i, j, minIndex, draw, foundCount, key,
                   start, end, result, report, nread, src0, memberDraws>>

\* One per repeated value instead of its extra occurrences.
ExcessPerValue(k) == IF k > 1 THEN 1 ELSE 0

\* if (pair.second > 1) duplicateCount += pair.second - 1;
Excess(k) == IF k > 1 THEN k - 1 ELSE 0

\* The counting loop from entry k of the visiting order on.
RECURSIVE DupScan(_, _, _, _)
DupScan(map, order, k, duplicateCount) ==
    IF k > Len(order)
      THEN duplicateCount
      ELSE DupScan(map, order, k + 1, duplicateCount + Excess(map[order[k]]))

\* DuplicateAnalyzer::analyze.
daAnalyze ==
    /\ pc = "daAnalyze"
    /\ LET countMap == FrequencyMap(SubSeq(heap[an["da"].values], 1, an["da"].size))
       IN  \E order \in IterOrders(countMap) :
             report' = [report EXCEPT !["da"] =
                          [kind |-> "count", n |-> DupScan(countMap, order, 1, 0)]]
    /\ pc' = "maCtor"
    /\ UNCHANGED <<file, failbit, heap, brk, br, an, self, i, j, minIndex,
                   draw, foundCount, key, start, end, result, nread, src0,
                   memberDraws>>

(* --------------------------- MissingAnalyzer --------------------------- *)

\* MissingAnalyzer::MissingAnalyzer: clone only.
MissingAnalyzer ==
    /\ pc = "maCtor"
    /\ an' = AnCloned("ma")
    /\ heap' = HeapCloned
    /\ brk' = brk + 1
    /\ self' = "ma"
    /\ pc' = "maAnalyze"
    /\ UNCHANGED <<file, failbit, br, i, j, minIndex, draw, foundCount, key,
                   start, end, result, report, nread, src0, memberDraws>>

\* The keys of valueMap after valueMap[values[i]] = true for every i.
ValueMapKeys(s) == Range(s)

\* The loop run with i <= 1000.
MissingCountInclusive(s) ==
    Cardinality({d \in 0..MissingDomain : d \notin ValueMapKeys(s)})

\* for (i = 0; i < 1000; ++i) if (valueMap.find(i) == end) missingCount++;
MissingCount(s) ==
    Cardinality({d \in 0..(MissingDomain - 1) : d \notin ValueMapKeys(s)})

\* MissingAnalyzer::analyze.
maAnalyze ==
    /\ pc = "maAnalyze"
    /\ report' = [report EXCEPT !["ma"] =
                   [kind |-> "count",
                    n |-> MissingCount(SubSeq(heap[an["ma"].values], 1, an["ma"].size))]]
    /\ pc' = "raCtor"
    /\ UNCHANGED <<file, failbit, heap, brk, br, an, self, i, j, minIndex,
                   draw, foundCount, key, start, end, result, nread, src0,
                   memberDraws>>

(* ---------------------------- binary search ---------------------------- *)

\* The size handed over as last index.
SearchEndPastLast(size) == size

\* binary_search: the last index handed to binary_search_recursive.
SearchEnd(size) == size - 1

\* if (start > end) return false;
Exhausted(lo, hi) == lo > hi

\* int mid = start + (end - start) / 2;
Mid(lo, hi) == lo + (hi - lo) \div 2

\* The halves mixed up.
GoLeftFlipped(v, k) == v < k

\* if (values[mid] > key): recurse into the left half.
GoLeft(v, k) == v > k

\* The bounds of the two recursive calls.
LeftEnd(mid) == mid - 1

\* The right half entered without stepping past mid.
RightStartAtMid(mid) == mid

RightStart(mid) == mid + 1

\* One call of binary_search_recursive: it returns, or calls itself on one
\* half (a tail call: nothing is done with the result but to return it).
binary_search_recursive ==
    /\ pc = "bs"
    /\ IF Exhausted(start, end)
         THEN /\ result' = FALSE
              /\ pc' = "bsRet"
              /\ UNCHANGED <<start, end>>
         ELSE LET mid == Mid(start, end)
                  v   == At(an["ra"].values, mid)
              IN  IF v = key
                    THEN /\ result' = TRUE
                         /\ pc' = "bsRet"
                         /\ UNCHANGED <<start, end>>
                    ELSE IF GoLeft(v, key)
                           THEN /\ end' = LeftEnd(mid)
                                /\ UNCHANGED <<start, result, pc>>
                           ELSE /\ start' = RightStart(mid)
                                /\ UNCHANGED <<end, result, pc>>
    /\ UNCHANGED <<file, failbit, heap, brk, br, an, self, i, j, minIndex,
                   draw, foundCount, key, report, nread, src0, memberDraws>>

(* ---------------------------- SearchAnalyzer --------------------------- *)

\* SearchAnalyzer::SearchAnalyzer: clone, then selection_sort.
SearchAnalyzer ==
    /\ pc = "raCtor"
    /\ an' = AnCloned("ra")
    /\ heap' = HeapCloned
    /\ brk' = brk + 1
    /\ self' = "ra"
    /\ i' = 0
    /\ pc' = "sortOuter"
    /\ UNCHANGED <<file, failbit, br, j, minIndex, draw, foundCount, key,
                   start, end, result, report, nread, src0, memberDraws>>

\* The number of lookups made: the code's 100, capped by MaxDraws.
LookupLimit == IF MaxDraws < Lookups THEN MaxDraws ELSE Lookups

\* Every lookup counted, found or not.
CountedAlways(found, res) == found + 1

\* if (binary_search(...)) foundCount++;
Counted(found, res) == IF res THEN found + 1 ELSE found

\* The head of the lookup loop: draw a key and call binary_search, or, after
\* the last lookup, return the report.
raLoop ==
    /\ pc = "raLoop"
    /\ IF draw < LookupLimit
         THEN /\ \E searchValue \in Keys :
                   /\ key' = searchValue
                   /\ memberDraws' =
                        IF searchValue \in Range(heap[an["ra"].values])
                          THEN memberDraws + 1 ELSE memberDraws
              /\ start' = 0
              /\ end' = SearchEnd(an["ra"].size)
              /\ pc' = "bs"
              /\ UNCHANGED report
         ELSE /\ report' = [report EXCEPT !["ra"] =
                              [kind |-> "count", n |-> foundCount]]
              /\ pc' = "done"
              /\ UNCHANGED <<key, start, end, memberDraws>>
    /\ UNCHANGED <<file, failbit, heap, brk, br, an, self, i, j, minIndex,
                   draw, foundCount, result, nread, src0>>

\* binary_search has returned: count the hit, ++i.
raCount ==
    /\ pc = "bsRet"
    /\ foundCount' = Counted(foundCount, result)
    /\ draw' = draw + 1
    /\ pc' = "raLoop"
    /\ UNCHANGED <<file, failbit, heap, brk, br, an, self, i, j, minIndex,
                   key, start, end, result, report, nread, src0, memberDraws>>

(* --------------------------- specification ----------------------------- *)

Next ==
    \/ createBinaryFile
    \/ BinaryReader
    \/ StatisticsAnalyzer
    \/ SortOuter
    \/ SortInner
    \/ saAnalyze
    \/ DuplicateAnalyzer
    \/ daAnalyze
    \/ MissingAnalyzer
    \/ maAnalyze
    \/ SearchAnalyzer
    \/ raLoop
    \/ binary_search_recursive
    \/ raCount

Spec == Init /\ [][Next]_vars

\* main() is one thread that runs to its end: a step that can be taken is
\* taken.
FairSpec == Init /\ [][Next]_vars /\ WF_vars(Next)

(* ------------------------------ properties ----------------------------- *)

\* The analyzer `name` has been constructed (its sort, if any, has returned).
Built(name) ==
    CASE name = "sa" -> pc \in {"saAnalyze", "daCtor", "daAnalyze", "maCtor",
                                "maAnalyze", "raCtor", "raLoop", "bs", "bsRet",
                                "done"}
                        \/ (pc \in {"sortOuter", "sortInner"} /\ self = "ra")
      [] name = "da" -> pc \in {"daAnalyze", "maCtor", "maAnalyze", "raCtor",
                                "sortOuter", "sortInner", "raLoop", "bs",
                                "bsRet", "done"} /\ self # "sa"
      [] name = "ma" -> pc \in {"maAnalyze", "raCtor", "sortOuter", "sortInner",
                                "raLoop", "bs", "bsRet", "done"}
                        /\ self \notin {"sa", "da"}
      [] name = "ra" -> pc \in {"raLoop", "bs", "bsRet", "done"}

\* The array the analyzer `name` owns.
Own(name) == heap[an[name].values]

\* C1: when selection_sort has returned (in the constructors of the
\* Statistics and the Search analyzer), the array has the length it was given,
\* holds the same values as often as the sequence it was copied from, and is
\* in non-decreasing order.
SortPermutesAndOrders ==
    \A n \in {"sa", "ra"} :
        Built(n) => /\ Len(Own(n)) = Len(src0)
                    /\ an[n].size = Len(src0)
                    /\ SameBag(Own(n), src0)
                    /\ Sorted(Own(n))

SortWitness ==
    /\ Built("sa")
    /\ Len(src0) >= 3
    /\ ~Sorted(src0)
    /\ Cardinality(Range(src0)) < Len(src0)
    /\ Own("sa") # src0

\* C2: on the sorted array, binary_search returns true exactly when the key
\* is one of the elements; on the empty array it returns false.
SearchFindsExactlyMembers ==
    (pc = "bsRet" /\ Sorted(Own("ra")))
        => /\ result = (key \in Range(Own("ra")))
           /\ (an["ra"].size = 0 => result = FALSE)

SearchWitness ==
    /\ pc = "bsRet"
    /\ result = TRUE
    /\ an["ra"].size >= 3
    /\ start > 0
    /\ Cardinality(Range(Own("ra"))) < an["ra"].size

\* C3: once the reader has handed out its array, constructing analyzers and
\* calling analyze() never changes it, and the Duplicate and the Missing
\* analyzer, built after the Statistics analyzer sorted, hold the data in
\* the original order.
SourceUntouched ==
    /\ pc \notin {"create", "read"} => heap[br.values] = src0
    /\ Built("da") => Own("da") = src0
    /\ Built("ma") => Own("ma") = src0

SourceWitness ==
    /\ pc = "done"
    /\ ~Sorted(src0)
    /\ Own("sa") # src0
    /\ Own("ra") # src0
    /\ heap[br.values] = src0

\* C4: the analyzers are handed the reader's data only when the file was
\* well formed: the stream did not fail and every one of the getSize()
\* elements was read from the file.
ReaderFailsFast ==
    pc \notin {"create", "read"} => (~failbit /\ nread = br.size)

\* The largest number of occurrences of one value in s.
MaxCount(s) == CHOOSE c \in 0..Len(s) :
                  /\ \A v \in Range(s) : Count(s, v) <= c
                  /\ (s # <<>> => \E v \in Range(s) : Count(s, v) = c)

\* C5: for a non-empty sequence the reported mode occurs as often as any
\* value does, that number is reported with it, and among several values
\* occurring that often the smallest is the one reported.
ModeIsSmallestMostFrequent ==
    report["sa"].kind = "stats" =>
        LET s == Own("sa")
            r == report["sa"]
        IN  /\ r.maxFrequency = MaxCount(s)
            /\ Count(s, r.mode) = r.maxFrequency
            /\ \A v \in Range(s) : Count(s, v) = r.maxFrequency => r.mode <= v

\* C6: the Duplicate analyzer reports the length less the number of distinct
\* values (0 for the empty sequence).
DuplicatesAreExcess ==
    report["da"].kind = "count" =>
        /\ report["da"].n = Len(src0) - Cardinality(Range(src0))
        /\ (src0 = <<>> => report["da"].n = 0)

DuplicatesWitness ==
    /\ report["da"].kind = "count"
    /\ report["da"].n = 2
    /\ Cardinality({v \in Range(src0) : Count(src0, v) > 1}) = 1

\* C7: the Missing analyzer reports how many of 0..999 do not occur in the
\* sequence: elements outside 0..999 do not count, the report lies in
\* 0..1000 and is 1000 for the empty sequence.
MissingCountsDomain ==
    report["ma"].kind = "count" =>
        /\ report["ma"].n = 1000 - Cardinality(Range(src0) \cap (0..999))
        /\ report["ma"].n \in 0..1000
        /\ (src0 = <<>> => report["ma"].n = 1000)

MissingWitness ==
    /\ report["ma"].kind = "count"
    /\ {-1, 1000} \subseteq Range(src0)
    /\ report["ma"].n = 998

\* C8: the Search analyzer reports the number of lookups whose key occurs in
\* the sequence it was given, each lookup counted for itself; none for the
\* empty sequence, all when every key drawn occurs.
FoundCountsMemberDraws ==
    /\ pc = "raLoop" => foundCount = memberDraws
    /\ pc = "done" => /\ report["ra"].n = memberDraws
                      /\ (src0 = <<>> => report["ra"].n = 0)

FoundWitness ==
    /\ pc = "done"
    /\ ~Sorted(src0)
    /\ report["ra"].n = LookupLimit
    /\ LookupLimit >= 2

\* C9: main() reaches its end on every input, and every recursive call of
\* binary_search_recursive is made on a strictly smaller interval.
Terminates ==
    /\ <>(pc = "done")
    /\ [][(pc = "bs" /\ pc' = "bs") => (end' - start' < end - start)]_vars

TerminatesWitness ==
    /\ pc = "done"
    /\ Len(src0) >= 3
    /\ ~Sorted(src0)
    /\ start > 0
    /\ result = FALSE

\* C10: every index used lies in 0..size-1 of the array the analyzer owns:
\* j, i and minIndex in selection_sort, mid (between start and end) in
\* binary_search_recursive, and the positions StatisticsAnalyzer::analyze
\* reads, which it reads only when size is not 0.
IndicesInBounds ==
    /\ \A n \in Names : an[n].values # NullPtr => Len(Own(n)) = an[n].size
    /\ pc = "sortInner" =>
         IF InnerCond(j, an[self].size)
           THEN {j, minIndex} \subseteq 0..(an[self].size - 1)
           ELSE {i, minIndex} \subseteq 0..(an[self].size - 1)
    /\ (pc = "bs" /\ ~Exhausted(start, end)) =>
         /\ Mid(start, end) \in 0..(an["ra"].size - 1)
         /\ start <= Mid(start, end)
         /\ Mid(start, end) <= end
    /\ (pc = "saAnalyze" /\ ~SaEmpty(an["sa"].size)) =>
         StatIndices(an["sa"].size) \subseteq 0..(an["sa"].size - 1)

IndicesWitness ==
    /\ pc = "bs"
    /\ ~Exhausted(start, end)
    /\ an["ra"].size >= 3
    /\ Mid(start, end) = an["ra"].size - 1

====
